---- MODULE Spec2Model ----
(***************************************************************************)
(* Model of src/index.ts: the clipboard link fixer.                        *)
(*                                                                         *)
(*   - UrlReplacer.apply / ClipboardMonitor.detectAndFixLinks, computed on *)
(*     texts represented as sequences of one-character strings;            *)
(*   - ClipboardMonitor: init, tray, toggle, timer, checkClipboard split   *)
(*     at its await points, exit; the operating system clipboard and the   *)
(*     spawned clipboard processes are part of the environment.            *)
(***************************************************************************)
EXTENDS Integers, Sequences, FiniteSets, Bags, TLC

\* ------------------------------------------------------------------------
\* Bounds of the model
\* ------------------------------------------------------------------------

\* Largest number of fragments an input of the rewrite engine is made of.
MaxFrags == 4

\* Cap of the ghost counter of loop iterations of UrlReplacer.apply.
MaxIter == 6

\* Largest number of checkClipboard invocations in flight at the same time.
MaxTicks == 2

\* ------------------------------------------------------------------------
\* Texts: sequences of characters
\* ------------------------------------------------------------------------

Empty == << >>

HTTP == <<"h", "t", "t", "p">>

COLONSLASHES == <<":", "/", "/">>

DOTCOM == <<".", "c", "o", "m">>

FIXUP == <<"f", "i", "x", "u", "p">>

DD == <<"d", "d">>

TWITTER == <<"t", "w", "i", "t", "t", "e", "r">>

X == <<"x">>

INSTAGRAM == <<"i", "n", "s", "t", "a", "g", "r", "a", "m">>

TIKTOK == <<"t", "i", "k", "t", "o", "k">>

FOO == <<"/", "f", "o", "o">>

SPACE == <<" ">>

HTTPS == HTTP \o <<"s">>

Min(S) == CHOOSE m \in S : \A n \in S : m <= n

\* text.startsWith(lit, i) with 1-based i
HasAt(text, i, lit) ==
    /\ i >= 1
    /\ i + Len(lit) - 1 <= Len(text)
    /\ SubSeq(text, i, i + Len(lit) - 1) = lit

\* ------------------------------------------------------------------------
\* The replacers (ClipboardMonitor.constructor)
\* ------------------------------------------------------------------------

\* Each pattern is  https?:\/\/(?<!LOOKBEHIND)(HOST|...)\.com  with flag g.
\* A rule records the lookbehind, the alternatives in order and the
\* replacement string.
TwitterReplacer ==
    [lookbehind |-> FIXUP, hosts |-> <<TWITTER, X>>,
     replacement |-> HTTPS \o COLONSLASHES \o FIXUP \o X \o DOTCOM]

InstagramReplacer ==
    [lookbehind |-> DD, hosts |-> <<INSTAGRAM>>,
     replacement |-> HTTPS \o COLONSLASHES \o DD \o INSTAGRAM \o DOTCOM]

TiktokReplacer ==
    [lookbehind |-> FIXUP, hosts |-> <<TIKTOK>>,
     replacement |-> HTTPS \o COLONSLASHES \o FIXUP \o TIKTOK \o DOTCOM]

\* A replacer whose replacement is matched again by its own pattern.
replacersRematch ==
    << TwitterReplacer, InstagramReplacer,
       [TiktokReplacer EXCEPT
           !.replacement = HTTPS \o COLONSLASHES \o TIKTOK \o DOTCOM] >>

replacers == << TwitterReplacer, InstagramReplacer, TiktokReplacer >>

\* ------------------------------------------------------------------------
\* Regular expression matching
\* ------------------------------------------------------------------------

\* (?<!lb) at position q: fails when the text just before q is lb.
LookbehindFails(lb, text, q) == HasAt(text, q - Len(lb), lb)

\* The rest of the pattern after "://": lookbehind, alternation, "\.com".
\* Gives the position just after the match, 0 when there is none.
TailEnd(rule, text, q) ==
    IF LookbehindFails(rule.lookbehind, text, q) THEN 0
    ELSE LET ok == {k \in 1..Len(rule.hosts) :
                        HasAt(text, q, rule.hosts[k] \o DOTCOM)}
         IN  IF ok = {} THEN 0
             ELSE q + Len(rule.hosts[Min(ok)]) + Len(DOTCOM)

\* The pattern tried at position i: "http", greedy optional "s" (with
\* backtracking), "://", then the tail.  Position after the match, or 0.
MatchEnd(rule, text, i) ==
    IF ~HasAt(text, i, HTTP) THEN 0
    ELSE LET withS == IF HasAt(text, i + 4, <<"s">> \o COLONSLASHES)
                      THEN TailEnd(rule, text, i + 8) ELSE 0
             withoutS == IF HasAt(text, i + 4, COLONSLASHES)
                         THEN TailEnd(rule, text, i + 7) ELSE 0
         IN  IF withS # 0 THEN withS ELSE withoutS

\* The start positions of all matches found by a left-to-right global scan.
MatchStarts(rule, text) == {i \in 1..Len(text) : MatchEnd(rule, text, i) # 0}

\* result.match(pattern)[0]: the leftmost match, Empty standing for null.
FirstMatch(rule, text) ==
    LET S == MatchStarts(rule, text)
    IN  IF S = {} THEN Empty
        ELSE LET i == Min(S) IN SubSeq(text, i, MatchEnd(rule, text, i) - 1)

\* A replace that rewrites every occurrence of m, as replaceAll does.
RECURSIVE StringReplaceAll(_, _, _)
StringReplaceAll(text, m, replacement) ==
    LET occ == {i \in 1..Len(text) : HasAt(text, i, m)}
    IN  IF occ = {} \/ m = Empty THEN text
        ELSE LET i == Min(occ)
             IN  SubSeq(text, 1, i - 1) \o replacement
                   \o StringReplaceAll(SubSeq(text, i + Len(m), Len(text)),
                                       m, replacement)

\* result.replace(m, replacement) with a string m: the first occurrence of
\* m is replaced.
StringReplace(text, m, replacement) ==
    LET occ == {i \in 1..Len(text) : HasAt(text, i, m)}
    IN  IF occ = {} THEN text
        ELSE LET i == Min(occ)
             IN  SubSeq(text, 1, i - 1) \o replacement
                   \o SubSeq(text, i + Len(m), Len(text))

\* One iteration of the while loop of UrlReplacer.apply.
ReplaceOnce(rule, text) ==
    StringReplace(text, FirstMatch(rule, text), rule.replacement)

\* An apply without the loop: only the first match is replaced.
UrlReplacerApplyOnce(rule, text) ==
    IF FirstMatch(rule, text) = Empty THEN text
    ELSE ReplaceOnce(rule, text)

\* UrlReplacer.apply
RECURSIVE UrlReplacerApply(_, _)
UrlReplacerApply(rule, text) ==
    IF FirstMatch(rule, text) = Empty THEN text
    ELSE UrlReplacerApply(rule, ReplaceOnce(rule, text))

\* this.replacers.reduce(...) over the first n replacers
RECURSIVE Reduce(_, _, _)
Reduce(rs, n, text) ==
    IF n = 0 THEN text
    ELSE UrlReplacerApply(rs[n], Reduce(rs, n - 1, text))

\* ClipboardMonitor.detectAndFixLinks
detectAndFixLinks(text) ==
    IF text = Empty THEN text
    ELSE Reduce(replacers, Len(replacers), text)

\* String.prototype.trim with the white space of the model's alphabet
IsSpace(c) == c = " "

RECURSIVE TrimStart(_)
TrimStart(s) ==
    IF s # Empty /\ IsSpace(Head(s)) THEN TrimStart(Tail(s)) ELSE s

RECURSIVE TrimEnd(_)
TrimEnd(s) ==
    IF s # Empty /\ IsSpace(s[Len(s)])
    THEN TrimEnd(SubSeq(s, 1, Len(s) - 1)) ELSE s

Trim(s) == TrimEnd(TrimStart(s))

\* ------------------------------------------------------------------------
\* Inputs of the rewrite engine
\* ------------------------------------------------------------------------

Fragments ==
    { HTTP \o COLONSLASHES, HTTPS \o COLONSLASHES,
      X \o DOTCOM, TWITTER \o DOTCOM, INSTAGRAM \o DOTCOM, TIKTOK \o DOTCOM,
      FIXUP, DD, FOO }

RECURSIVE Flatten(_)
Flatten(fs) == IF fs = << >> THEN Empty ELSE Head(fs) \o Flatten(Tail(fs))

Inputs ==
    { Flatten(fs) : fs \in UNION { [1..n -> Fragments] : n \in 0..MaxFrags } }

\* ------------------------------------------------------------------------
\* State
\* ------------------------------------------------------------------------

VARIABLES
    \* detectAndFixLinks run statement by statement (SpecApply)
    aInput,        \* the argument of detectAndFixLinks
    aText,         \* `result` / `currentText`
    aRule,         \* index of the replacer being applied
    aPc,           \* "start", "loop", "done"
    aIter,         \* ghost: replacements made by the current replacer
    aRuleText,     \* ghost: the text the current replacer was given
    \* the process (Spec)
    platform,              \* process.platform
    phase,                 \* "constructed", "initTray", "monitoring", "exited"
    tray,                  \* this.tray: "null", "created", "destroyed"
    trayIcon,              \* icon shown by the tray: "none", "enabled", "disabled"
    isMonitoringEnabled,   \* this.isMonitoringEnabled
    lastClipboardContent,  \* this.lastClipboardContent
    intervalId,            \* this.intervalId: TRUE when the timer is armed
    clipboard,             \* the operating system clipboard
    ticks,                 \* the invocations of checkClipboard in flight (a bag)
    pendingSignals,        \* signals delivered and not yet handled
    exitCode,              \* "none" or the code given to process.exit
    \* ghost state
    exitCount,             \* number of executions of exit()
    clipOwn,               \* the clipboard holds what a write-back put there
    clipFailed,            \* a write-back failed for the present content
    ev                     \* the step just taken

applyVars == << aInput, aText, aRule, aPc, aIter, aRuleText >>

procVars ==
    << platform, phase, tray, trayIcon, isMonitoringEnabled,
       lastClipboardContent, intervalId, clipboard, ticks, pendingSignals,
       exitCode, exitCount, clipOwn, clipFailed, ev >>

vars ==
    << aInput, aText, aRule, aPc, aIter, aRuleText,
       platform, phase, tray, trayIcon, isMonitoringEnabled,
       lastClipboardContent, intervalId, clipboard, ticks, pendingSignals,
       exitCode, exitCount, clipOwn, clipFailed, ev >>

Platforms == {"win32", "darwin", "linux", "other"}

Signals == {"SIGINT", "SIGTERM"}

\* Texts the user copies to the clipboard.
UserTexts ==
    { HTTP \o COLONSLASHES \o X \o DOTCOM \o SPACE
        \o HTTPS \o COLONSLASHES \o TWITTER \o DOTCOM \o FOO \o SPACE,
      FOO }

\* detectAndFixLinks on the contents a tick can read, computed once: what
\* the user copies, trimmed, and what write-backs make of it.
FixDomain ==
    LET read == {Trim(u) : u \in UserTexts} \cup {Empty}
        once == read \cup {Trim(detectAndFixLinks(c)) : c \in read}
    IN  once \cup {Trim(detectAndFixLinks(c)) : c \in once}

FixTable == [c \in FixDomain |-> detectAndFixLinks(c)]

FixedContent(content) == FixTable[content]

\* An invocation of checkClipboard as it is entered.
EnteredTick ==
    [pc |-> "entered", content |-> Empty, buf |-> Empty, startedEnabled |-> TRUE,
     own |-> FALSE, afterFail |-> FALSE, fresh |-> FALSE, readFailed |-> FALSE,
     landed |-> FALSE]

NoEvent ==
    [type |-> "none", content |-> Empty, text |-> Empty, own |-> FALSE,
     afterFail |-> FALSE, startedEnabled |-> TRUE, landed |-> FALSE,
     readFailed |-> FALSE]

Event(type, t) ==
    [type |-> type, content |-> t.content, text |-> t.buf, own |-> t.own,
     afterFail |-> t.afterFail, startedEnabled |-> t.startedEnabled,
     landed |-> t.landed, readFailed |-> t.readFailed]

\* The state of a process that runs detectAndFixLinks alone.
ProcIdle ==
    /\ platform = "linux"
    /\ phase = "constructed"
    /\ tray = "null"
    /\ trayIcon = "none"
    /\ isMonitoringEnabled = TRUE
    /\ lastClipboardContent = Empty
    /\ intervalId = FALSE
    /\ clipboard = Empty
    /\ ticks = EmptyBag
    /\ pendingSignals = {}
    /\ exitCode = "none"
    /\ exitCount = 0
    /\ clipOwn = FALSE
    /\ clipFailed = FALSE
    /\ ev = NoEvent

\* ------------------------------------------------------------------------
\* detectAndFixLinks, statement by statement
\* ------------------------------------------------------------------------

InitApply ==
    /\ aInput \in Inputs
    /\ aText = aInput
    /\ aRule = 1
    /\ aPc = "start"
    /\ aIter = 0
    /\ aRuleText = aInput
    /\ ProcIdle

\* if (!text) return text;
DetectEmpty ==
    /\ aPc = "start"
    /\ aText = Empty
    /\ aPc' = "done"
    /\ UNCHANGED << aInput, aText, aRule, aIter, aRuleText >>
    /\ UNCHANGED procVars

\* the reduce starts with the first replacer
DetectStart ==
    /\ aPc = "start"
    /\ aText # Empty
    /\ aPc' = "loop"
    /\ UNCHANGED << aInput, aText, aRule, aIter, aRuleText >>
    /\ UNCHANGED procVars

\* while ((match = result.match(this.pattern))) result = result.replace(...)
ApplyReplace ==
    /\ aPc = "loop"
    /\ FirstMatch(replacers[aRule], aText) # Empty
    /\ aIter < MaxIter
    /\ aText' = ReplaceOnce(replacers[aRule], aText)
    /\ aIter' = aIter + 1
    /\ UNCHANGED << aInput, aRule, aPc, aRuleText >>
    /\ UNCHANGED procVars

\* no match: return result; reduce goes on with the next replacer
ApplyNextRule ==
    /\ aPc = "loop"
    /\ FirstMatch(replacers[aRule], aText) = Empty
    /\ aRule < Len(replacers)
    /\ aRule' = aRule + 1
    /\ aIter' = 0
    /\ aRuleText' = aText
    /\ UNCHANGED << aInput, aText, aPc >>
    /\ UNCHANGED procVars

\* no match in the last replacer: reduce returns
ApplyFinish ==
    /\ aPc = "loop"
    /\ FirstMatch(replacers[aRule], aText) = Empty
    /\ aRule = Len(replacers)
    /\ aPc' = "done"
    /\ UNCHANGED << aInput, aText, aRule, aIter, aRuleText >>
    /\ UNCHANGED procVars

NextApply ==
    \/ DetectEmpty
    \/ DetectStart
    \/ ApplyReplace
    \/ ApplyNextRule
    \/ ApplyFinish

SpecApply == InitApply /\ [][NextApply]_vars


\* ------------------------------------------------------------------------
\* The process: construction, init, tray
\* ------------------------------------------------------------------------

\* After `new ClipboardMonitor()` and the registration of the signal
\* handlers in main(); the clipboard is empty.
Init ==
    /\ platform \in Platforms
    /\ phase = "constructed"
    /\ tray = "null"
    /\ trayIcon = "none"
    /\ isMonitoringEnabled = TRUE
    /\ lastClipboardContent = Empty
    /\ intervalId = FALSE
    /\ clipboard = Empty
    /\ ticks = EmptyBag
    /\ pendingSignals = {}
    /\ exitCode = "none"
    /\ exitCount = 0
    /\ clipOwn = FALSE
    /\ clipFailed = FALSE
    /\ ev = NoEvent
    /\ aInput = Empty
    /\ aText = Empty
    /\ aRule = 1
    /\ aPc = "done"
    /\ aIter = 0
    /\ aRuleText = Empty

\* The process runs: process.exit has not been called.
Alive == phase # "exited"

\* Steps that are not a branch of checkClipboard leave no event.
Env(type) == NoEvent

\* updateTray: the icon after the call; iconOk is whether readFileSync and
\* setIcon went through.
updateTray(trayNow, enabled, iconOk) ==
    IF trayNow # "created" THEN trayIcon
    ELSE IF iconOk THEN (IF enabled THEN "enabled" ELSE "disabled")
    ELSE trayIcon

\* An init that returns without arming the timer.
startMonitoringNoTimer == FALSE

\* startMonitoring: intervalId = setInterval(() => this.checkClipboard(), 500)
startMonitoring == TRUE

\* init() on Windows: up to `await this.initTray()`, Tray.create pending
InitWindows ==
    /\ phase = "constructed"
    /\ platform = "win32"
    /\ phase' = "initTray"
    /\ ev' = Env("init")
    /\ UNCHANGED << tray, trayIcon, isMonitoringEnabled, lastClipboardContent,
                    intervalId, clipboard, ticks, pendingSignals, exitCode,
                    exitCount, clipOwn, clipFailed, platform >>
    /\ UNCHANGED applyVars

\* init() elsewhere: no tray, startMonitoring()
InitHeadless ==
    /\ phase = "constructed"
    /\ platform # "win32"
    /\ intervalId' = startMonitoring
    /\ phase' = "monitoring"
    /\ ev' = Env("init")
    /\ UNCHANGED << tray, trayIcon, isMonitoringEnabled, lastClipboardContent,
                    clipboard, ticks, pendingSignals, exitCode,
                    exitCount, clipOwn, clipFailed, platform >>
    /\ UNCHANGED applyVars

\* Tray.create resolves: the items are added, updateTray(), then
\* startMonitoring()
TrayCreated ==
    /\ phase = "initTray"
    /\ \E iconOk \in BOOLEAN :
          trayIcon' = updateTray("created", isMonitoringEnabled, iconOk)
    /\ tray' = "created"
    /\ intervalId' = startMonitoring
    /\ phase' = "monitoring"
    /\ ev' = Env("trayCreated")
    /\ UNCHANGED << isMonitoringEnabled, lastClipboardContent,
                    clipboard, ticks, pendingSignals, exitCode,
                    exitCount, clipOwn, clipFailed, platform >>
    /\ UNCHANGED applyVars

\* Tray.create rejects: the error is logged, then startMonitoring()
TrayFailed ==
    /\ phase = "initTray"
    /\ intervalId' = startMonitoring
    /\ phase' = "monitoring"
    /\ ev' = Env("trayFailed")
    /\ UNCHANGED << tray, trayIcon, isMonitoringEnabled, lastClipboardContent,
                    clipboard, ticks, pendingSignals, exitCode,
                    exitCount, clipOwn, clipFailed, platform >>
    /\ UNCHANGED applyVars

\* A toggle that leaves the flag as it is.
ToggledKept == isMonitoringEnabled

\* this.isMonitoringEnabled = !this.isMonitoringEnabled
Toggled == ~isMonitoringEnabled

\* toggleMonitoring, called from the tray item: the flag is flipped, then
\* updateTray() paints the icon of the new value
toggleMonitoring ==
    /\ Alive
    /\ tray = "created"
    /\ isMonitoringEnabled' = Toggled
    /\ \E iconOk \in BOOLEAN :
          trayIcon' = updateTray(tray, Toggled, iconOk)
    /\ ev' = [NoEvent EXCEPT !.type = "toggle"]
    /\ UNCHANGED << phase, tray, lastClipboardContent, intervalId,
                    clipboard, ticks, pendingSignals, exitCode,
                    exitCount, clipOwn, clipFailed, platform >>
    /\ UNCHANGED applyVars

\* ------------------------------------------------------------------------
\* Shutdown
\* ------------------------------------------------------------------------

\* A process that never reaches process.exit(0) stays in its phase.
PhaseAfterExitNoTerminate == phase

\* process.exit(0): the process is gone and runs no further callback.
PhaseAfterExit == "exited"

\* stopMonitoring: clearInterval, intervalId = null
stopMonitoring == FALSE

\* exit()
exit ==
    /\ intervalId' = stopMonitoring
    /\ tray' = IF tray = "created" THEN "destroyed" ELSE tray
    /\ trayIcon' = IF tray = "created" THEN "none" ELSE trayIcon
    /\ exitCode' = 0
    /\ phase' = PhaseAfterExit
    /\ exitCount' = exitCount + 1
    /\ UNCHANGED << isMonitoringEnabled, lastClipboardContent, clipboard,
                    ticks, clipOwn, clipFailed, platform >>
    /\ UNCHANGED applyVars

\* The operating system delivers a termination signal to the process.
DeliverSignal ==
    /\ Alive
    /\ \E s \in Signals \ pendingSignals :
          pendingSignals' = pendingSignals \cup {s}
    /\ ev' = Env("signal")
    /\ UNCHANGED << phase, tray, trayIcon, isMonitoringEnabled,
                    lastClipboardContent, intervalId, clipboard, ticks,
                    exitCode, exitCount, clipOwn, clipFailed, platform >>
    /\ UNCHANGED applyVars

\* process.on("SIGINT" / "SIGTERM"): monitor.exit()
HandleSignal ==
    /\ Alive
    /\ \E s \in pendingSignals : pendingSignals' = pendingSignals \ {s}
    /\ ev' = [NoEvent EXCEPT !.type = "signalExit"]
    /\ exit

\* the tray item "Exit": this.exit()
TrayExit ==
    /\ Alive
    /\ tray = "created"
    /\ ev' = Env("exit")
    /\ UNCHANGED pendingSignals
    /\ exit

\* ------------------------------------------------------------------------
\* The environment: the user and the clipboard
\* ------------------------------------------------------------------------

\* An invocation whose read is older than the clipboard's present content.
Stale(rec) == [rec EXCEPT !.fresh = FALSE, !.afterFail = FALSE]

\* The user copies another text.
UserCopy ==
    /\ Alive
    /\ \E c \in UserTexts \ {clipboard} : clipboard' = c
    /\ clipOwn' = FALSE
    /\ clipFailed' = FALSE
    /\ ticks' = BagOfAll(Stale, ticks)
    /\ ev' = Env("copy")
    /\ UNCHANGED << phase, tray, trayIcon, isMonitoringEnabled,
                    lastClipboardContent, intervalId, pendingSignals,
                    exitCode, exitCount, platform >>
    /\ UNCHANGED applyVars

\* ------------------------------------------------------------------------
\* checkClipboard
\* ------------------------------------------------------------------------

\* The invocations in flight.
InFlight == BagToSet(ticks)

\* The timer callback of startMonitoring runs checkClipboard.
TimerDue ==
    /\ Alive
    /\ intervalId
    /\ BagCardinality(ticks) < MaxTicks

\* A checkClipboard that does not look at the flag.
MonitoringDisabledIgnored == FALSE

\* if (!this.isMonitoringEnabled) return;
MonitoringDisabled == ~isMonitoringEnabled

\* A length test that lets every content through.
IsEmptyContentNever(content) == FALSE

\* if (!clipboardContent?.length) return;
IsEmptyContent(content) == Len(content) = 0

\* A comparison that takes every content for new.
SameAsLastNever(content) == FALSE

\* clipboardContent !== this.lastClipboardContent, negated
SameAsLast(content) == content = lastClipboardContent

\* A tick that does not store what it read.
LastAfterReadKept(content) == lastClipboardContent

\* this.lastClipboardContent = clipboardContent;
LastAfterRead(content) == content

\* The stored content is never moved to the fixed text.
LastAfterWriteStale(written, content, fixedContent) == content

\* if (!await this.writeClipboard(fixedContent)) { console.error(...) }
\* this.lastClipboardContent = fixedContent;
LastAfterWrite(written, content, fixedContent) == fixedContent

\* The invocation that starts now.
NewTick ==
    [EnteredTick EXCEPT !.startedEnabled = isMonitoringEnabled,
                        !.afterFail = clipFailed]

\* The invocation rec returns.
Finish(rec) == ticks' = ticks (-) SetToBag({rec})

\* The invocation rec suspends or moves on as next.
Become(rec, next) == ticks' = (ticks (-) SetToBag({rec})) (+) SetToBag({next})

\* The timer fires while monitoring is disabled: checkClipboard returns.
TickDisabled ==
    /\ TimerDue
    /\ MonitoringDisabled
    /\ ev' = Event("tickDisabled", NewTick)
    /\ UNCHANGED << phase, tray, trayIcon, isMonitoringEnabled,
                    lastClipboardContent, intervalId, clipboard, ticks,
                    pendingSignals, exitCode, exitCount, clipOwn, clipFailed,
                    platform >>
    /\ UNCHANGED applyVars

\* readClipboard on a platform with no branch: returns "" at once, and
\* checkClipboard returns on the empty content.
TickReadUnsupported ==
    /\ TimerDue
    /\ ~MonitoringDisabled
    /\ platform = "other"
    /\ IsEmptyContent(Empty)
    /\ ev' = Event("readFail", [NewTick EXCEPT !.readFailed = TRUE])
    /\ UNCHANGED << phase, tray, trayIcon, isMonitoringEnabled,
                    lastClipboardContent, intervalId, clipboard, ticks,
                    pendingSignals, exitCode, exitCount, clipOwn, clipFailed,
                    platform >>
    /\ UNCHANGED applyVars

\* readClipboard: Bun.spawn throws, the catch returns "", and
\* checkClipboard returns on the empty content.
TickReadSpawnFail ==
    /\ TimerDue
    /\ ~MonitoringDisabled
    /\ platform # "other"
    /\ IsEmptyContent(Empty)
    /\ ev' = Event("readFail", [NewTick EXCEPT !.readFailed = TRUE])
    /\ UNCHANGED << phase, tray, trayIcon, isMonitoringEnabled,
                    lastClipboardContent, intervalId, clipboard, ticks,
                    pendingSignals, exitCode, exitCount, clipOwn, clipFailed,
                    platform >>
    /\ UNCHANGED applyVars

\* readClipboard: the paste utility is spawned and its output awaited.
TickReadSpawn ==
    /\ TimerDue
    /\ ~MonitoringDisabled
    /\ platform # "other"
    /\ LET rec == [NewTick EXCEPT !.pc = "reading"]
       IN  /\ ticks' = ticks (+) SetToBag({rec})
           /\ ev' = Event("readSpawn", rec)
    /\ UNCHANGED << phase, tray, trayIcon, isMonitoringEnabled,
                    lastClipboardContent, intervalId, clipboard,
                    pendingSignals, exitCode, exitCount, clipOwn, clipFailed,
                    platform >>
    /\ UNCHANGED applyVars

\* The paste utility reads the clipboard and prints it.
ProcReadOk ==
    /\ \E t \in InFlight :
          /\ t.pc = "reading"
          /\ Become(t, [t EXCEPT !.pc = "read", !.buf = clipboard,
                                 !.own = clipOwn,
                                 !.afterFail = (t.afterFail /\ clipFailed),
                                 !.fresh = TRUE])
    /\ ev' = Env("procRead")
    /\ UNCHANGED << phase, tray, trayIcon, isMonitoringEnabled,
                    lastClipboardContent, intervalId, clipboard,
                    pendingSignals, exitCode, exitCount, clipOwn, clipFailed,
                    platform >>
    /\ UNCHANGED applyVars

\* The paste utility fails: it prints nothing.
ProcReadFail ==
    /\ \E t \in InFlight :
          /\ t.pc = "reading"
          /\ Become(t, [t EXCEPT !.pc = "read", !.buf = Empty,
                                 !.afterFail = FALSE, !.readFailed = TRUE])
    /\ ev' = Env("procReadFail")
    /\ UNCHANGED << phase, tray, trayIcon, isMonitoringEnabled,
                    lastClipboardContent, intervalId, clipboard,
                    pendingSignals, exitCode, exitCount, clipOwn, clipFailed,
                    platform >>
    /\ UNCHANGED applyVars

\* What the rest of checkClipboard leaves alone in every branch.
ResumeFrame ==
    /\ UNCHANGED << phase, tray, trayIcon, isMonitoringEnabled, intervalId,
                    clipboard, pendingSignals, exitCode, exitCount, clipOwn,
                    platform >>
    /\ UNCHANGED applyVars

\* The invocation t as it resumes from the read: output.trim()
Resumed(t) == [t EXCEPT !.content = Trim(t.buf)]

CanResumeRead(t) == Alive /\ t.pc = "read"

\* the content read is empty: return
ReadEmpty ==
    \E t \in InFlight :
       /\ CanResumeRead(t)
       /\ LET rec == Resumed(t)
          IN  /\ IsEmptyContent(rec.content)
              /\ ev' = Event(IF rec.readFailed THEN "readFail" ELSE "readEmpty", rec)
       /\ Finish(t)
       /\ UNCHANGED << lastClipboardContent, clipFailed >>
       /\ ResumeFrame

\* clipboardContent === this.lastClipboardContent: nothing to do
ReadUnchanged ==
    \E t \in InFlight :
       /\ CanResumeRead(t)
       /\ LET rec == Resumed(t)
          IN  /\ ~IsEmptyContent(rec.content)
              /\ SameAsLast(rec.content)
              /\ ev' = Event("unchanged", rec)
       /\ Finish(t)
       /\ UNCHANGED << lastClipboardContent, clipFailed >>
       /\ ResumeFrame

\* new content, and detectAndFixLinks leaves it as it is (or returns
\* nothing): the content is stored and nothing is written
ReadNoFix ==
    \E t \in InFlight :
       /\ CanResumeRead(t)
       /\ LET rec == Resumed(t)
              fixedContent == FixedContent(rec.content)
          IN  /\ ~IsEmptyContent(rec.content)
              /\ ~SameAsLast(rec.content)
              /\ fixedContent = Empty \/ fixedContent = rec.content
              /\ lastClipboardContent' = LastAfterRead(rec.content)
              /\ ev' = Event("noFix", rec)
       /\ Finish(t)
       /\ UNCHANGED clipFailed
       /\ ResumeFrame

\* new content with a link: writeClipboard spawns the copy utility and
\* awaits its exit
ReadWriteSpawn ==
    \E t \in InFlight :
       /\ CanResumeRead(t)
       /\ platform # "other"
       /\ LET rec == Resumed(t)
              fixedContent == FixedContent(rec.content)
              next == [rec EXCEPT !.pc = "writing", !.buf = fixedContent,
                                  !.own = FALSE, !.afterFail = FALSE]
          IN  /\ ~IsEmptyContent(rec.content)
              /\ ~SameAsLast(rec.content)
              /\ fixedContent # Empty /\ fixedContent # rec.content
              /\ lastClipboardContent' = LastAfterRead(rec.content)
              /\ Become(t, next)
              /\ ev' = Event("writeSpawn", [rec EXCEPT !.buf = fixedContent])
       /\ UNCHANGED clipFailed
       /\ ResumeFrame

\* new content with a link: writeClipboard returns false (Bun.spawn
\* throws, or the platform has no branch)
ReadWriteFail ==
    \E t \in InFlight :
       /\ CanResumeRead(t)
       /\ LET rec == Resumed(t)
              fixedContent == FixedContent(rec.content)
          IN  /\ ~IsEmptyContent(rec.content)
              /\ ~SameAsLast(rec.content)
              /\ fixedContent # Empty /\ fixedContent # rec.content
              /\ lastClipboardContent' =
                    LastAfterWrite(FALSE, rec.content, fixedContent)
              /\ clipFailed' = (clipFailed \/ rec.fresh)
              /\ ev' = Event("writeFail", [rec EXCEPT !.buf = fixedContent])
       /\ Finish(t)
       /\ ResumeFrame

\* The copy utility puts the text on the clipboard and exits.
ProcWriteOk ==
    /\ \E t \in InFlight :
          /\ t.pc = "writing"
          /\ clipboard' = t.buf
          /\ Become(t, [t EXCEPT !.pc = "written", !.landed = TRUE])
    /\ clipOwn' = TRUE
    /\ clipFailed' = FALSE
    /\ ev' = Env("procWrite")
    /\ UNCHANGED << phase, tray, trayIcon, isMonitoringEnabled,
                    lastClipboardContent, intervalId, pendingSignals,
                    exitCode, exitCount, platform >>
    /\ UNCHANGED applyVars

\* The copy utility exits without having changed the clipboard.
ProcWriteFail ==
    /\ \E t \in InFlight :
          /\ t.pc = "writing"
          /\ Become(t, [t EXCEPT !.pc = "written"])
    /\ ev' = Env("procWriteFail")
    /\ UNCHANGED << phase, tray, trayIcon, isMonitoringEnabled,
                    lastClipboardContent, intervalId, clipboard,
                    pendingSignals, exitCode, exitCount, clipOwn, clipFailed,
                    platform >>
    /\ UNCHANGED applyVars

\* `await proc.exited; return true`: checkClipboard resumes from the write
WriteResume ==
    \E t \in InFlight :
       /\ Alive
       /\ t.pc = "written"
       /\ lastClipboardContent' = LastAfterWrite(TRUE, t.content, t.buf)
       /\ ev' = Event("writeDone", t)
       /\ Finish(t)
       /\ UNCHANGED clipFailed
       /\ ResumeFrame

Next ==
    \/ InitWindows
    \/ InitHeadless
    \/ TrayCreated
    \/ TrayFailed
    \/ toggleMonitoring
    \/ DeliverSignal
    \/ HandleSignal
    \/ TrayExit
    \/ UserCopy
    \/ TickDisabled
    \/ TickReadUnsupported
    \/ TickReadSpawnFail
    \/ TickReadSpawn
    \/ ProcReadOk
    \/ ProcReadFail
    \/ ReadEmpty
    \/ ReadUnchanged
    \/ ReadNoFix
    \/ ReadWriteSpawn
    \/ ReadWriteFail
    \/ ProcWriteOk
    \/ ProcWriteFail
    \/ WriteResume

Spec == Init /\ [][Next]_vars

\* ------------------------------------------------------------------------
\* The loop left to itself: monitoring stays enabled, the process is not
\* terminated and the user copies one text
\* ------------------------------------------------------------------------

\* The first copy of the user; the clipboard is not changed externally again.
UserCopyOnce ==
    /\ clipboard = Empty
    /\ UserCopy

NextLive ==
    \/ InitWindows
    \/ InitHeadless
    \/ TrayCreated
    \/ TrayFailed
    \/ UserCopyOnce
    \/ TickReadUnsupported
    \/ TickReadSpawnFail
    \/ TickReadSpawn
    \/ ProcReadOk
    \/ ProcReadFail
    \/ ReadEmpty
    \/ ReadUnchanged
    \/ ReadNoFix
    \/ ReadWriteSpawn
    \/ ReadWriteFail
    \/ ProcWriteOk
    \/ ProcWriteFail
    \/ WriteResume

\* The timer keeps firing and the event loop resumes every continuation
\* (setInterval, await); the paste and copy utilities can be spawned and
\* succeed again and again.
FairLive ==
    /\ SF_vars(TickReadSpawn)
    /\ SF_vars(ProcReadOk)
    /\ WF_vars(ReadEmpty)
    /\ WF_vars(ReadUnchanged)
    /\ WF_vars(ReadNoFix)
    /\ SF_vars(ReadWriteSpawn)
    /\ SF_vars(ProcWriteOk)
    /\ WF_vars(WriteResume)

SpecLive == Init /\ [][NextLive]_vars /\ FairLive

\* ------------------------------------------------------------------------
\* Properties
\* ------------------------------------------------------------------------

\* The branches of checkClipboard in which writeClipboard is called.
WriteCalls == {"writeSpawn", "writeFail"}

\* C1: a tick whose read returned text that a write-back of the loop put on
\* the clipboard, with no copy by the user since, never calls writeClipboard.
C1_NoWriteOnOwnText == ev.type \in WriteCalls => ~ev.own

\* A tick has read the loop's own text and returned without writing.
C1_Witness ==
    /\ ev.type = "unchanged"
    /\ ev.own
    /\ ticks = EmptyBag
    /\ ev.content = detectAndFixLinks(ev.content)
    /\ ev.content \notin {Trim(u) : u \in UserTexts}

\* C2: when writeClipboard returns false, lastClipboardContent is the
\* content read in that tick, not the transformed text.
C2_FailedWriteKeepsContent ==
    ev.type = "writeFail" => lastClipboardContent = ev.content

\* C3: a tick that starts after a write-back has failed, and reads the
\* clipboard while the user has not copied anything new since the failure,
\* does not call writeClipboard again.
C3_NoRetryAfterFailure == ev.type \in WriteCalls => ~ev.afterFail

\* C4: at most one invocation of checkClipboard is in flight at any time.
C4_NoOverlap == BagCardinality(ticks) <= 1

\* C5: a tick entered while monitoring is disabled spawns no read and
\* calls no write: every invocation that is suspended at a read or a write,
\* and every branch of checkClipboard past the flag test, belongs to a tick
\* entered while monitoring was enabled.
C5_DisabledTickDoesNothing ==
    /\ \A t \in InFlight : t.startedEnabled
    /\ ev.type \notin {"none", "tickDisabled"} => ev.startedEnabled

\* A timer tick was skipped after monitoring had been toggled off.
C5_Witness ==
    /\ ev.type = "tickDisabled"
    /\ ~isMonitoringEnabled
    /\ ~ev.startedEnabled
    /\ tray = "created"

C8_ExitOnce ==
    /\ exitCount <= 1
    /\ exitCount = 1 <=> phase = "exited"
    /\ phase = "exited" =>
          /\ ~intervalId
          /\ tray # "created"
          /\ exitCode = 0
          /\ ev.type \in {"none", "signalExit"}

\* The process has exited on one trigger while another one was pending.
C8_Witness ==
    /\ phase = "exited"
    /\ exitCount = 1
    /\ pendingSignals # {}
    /\ tray = "destroyed"

\* https://fixupx.com/foo
AlreadyFixed == HTTPS \o COLONSLASHES \o FIXUP \o X \o DOTCOM \o FOO

RECURSIVE WorkLeft(_, _)
WorkLeft(r, text) ==
    IF r > Len(replacers) THEN 0
    ELSE 1 + Cardinality(MatchStarts(replacers[r], text)) + WorkLeft(r + 1, text)

Measure ==
    IF aPc = "done" THEN 0
    ELSE (IF aPc = "start" THEN 1 ELSE 0) + WorkLeft(aRule, aText)

\* C10: detectAndFixLinks returns for every input: every statement it runs
\* makes the work left smaller (each replacement removes one match and
\* creates none), so that no run goes on for ever, and the loop never
\* comes to the cap on its iterations.
C10_Terminates == [][ Measure' < Measure /\ aIter' < MaxIter ]_vars

\* A replacer has looped more than once and detectAndFixLinks has returned.
C10_Witness ==
    /\ aPc = "done"
    /\ aIter >= 2

\* The matches of replacer r in a text.
MatchCount(r, text) == Cardinality(MatchStarts(replacers[r], text))

C12_MonitoringStartsWithoutTray ==
    phase = "monitoring" =>
       /\ intervalId
       /\ BagCardinality(ticks) < MaxTicks => TimerDue

\* The creation of the tray failed on Windows and a tick is running.
C12_Witness ==
    /\ platform = "win32"
    /\ tray = "null"
    /\ phase = "monitoring"
    /\ intervalId
    /\ \E t \in InFlight : t.pc = "reading"

\* C13: toggleMonitoring flips isMonitoringEnabled, has the tray painted
\* with the new value in the same step (the icon is the one of the new value
\* unless painting failed) and leaves lastClipboardContent as it is; no
\* other step, and so no tick of checkClipboard, changes isMonitoringEnabled.
C13_ToggleFlipsAndNotifies ==
    [][ /\ ev'.type = "toggle" =>
             /\ isMonitoringEnabled' = ~isMonitoringEnabled
             /\ trayIcon' \in {trayIcon, updateTray(tray, isMonitoringEnabled', TRUE)}
             /\ lastClipboardContent' = lastClipboardContent
        /\ ev'.type # "toggle" => isMonitoringEnabled' = isMonitoringEnabled
      ]_vars

\* Monitoring was toggled off with a content stored, and the tray shows it.
C13_Witness ==
    /\ ev.type = "toggle"
    /\ ~isMonitoringEnabled
    /\ trayIcon = "disabled"
    /\ lastClipboardContent # Empty

\* The branches checkClipboard takes when it resumes from its read.
ReadBranches ==
    {"readEmpty", "readFail", "unchanged", "noFix", "writeSpawn", "writeFail"}

\* The invocations suspended in writeClipboard, with their multiplicity.
Writing(b) == [t \in {u \in BagToSet(b) : u.pc = "writing"} |-> CopiesIn(t, b)]

\* C14: a tick whose read returned empty content, or the content stored in
\* lastClipboardContent, does not call writeClipboard, starts no write,
\* leaves the clipboard and lastClipboardContent as they are.
C14_SkipEmptyOrUnchanged ==
    [][ ( /\ ev'.type \in ReadBranches
          /\ ev'.content = Empty \/ ev'.content = lastClipboardContent )
        => /\ ev'.type \notin WriteCalls
           /\ Writing(ticks') = Writing(ticks)
           /\ clipboard' = clipboard
           /\ lastClipboardContent' = lastClipboardContent
      ]_vars

\* A tick has read, for the second time, a text the user copied.
C14_Witness ==
    /\ ev.type = "unchanged"
    /\ ev.content = lastClipboardContent
    /\ ev.content # Empty
    /\ ~ev.own

\* C15: a tick that read non-empty content other than lastClipboardContent
\* has stored that content when it leaves the transform without a write or
\* suspends in the write; when the transform returns the content unchanged
\* the tick calls no write and ends with lastClipboardContent equal to the
\* content read.
C15_NewContentStoredFirst ==
    [][ ( /\ ev'.type \in ReadBranches
          /\ ev'.content # Empty
          /\ ev'.content # lastClipboardContent )
        => /\ ev'.type \in {"noFix", "writeSpawn"} =>
                 lastClipboardContent' = ev'.content
           /\ FixedContent(ev'.content) = ev'.content =>
                 /\ ev'.type = "noFix"
                 /\ Writing(ticks') = Writing(ticks)
                 /\ clipboard' = clipboard
                 /\ lastClipboardContent' = ev'.content
      ]_vars

\* A tick has read a text with no link and returned.
C15_Witness ==
    /\ ev.type = "noFix"
    /\ ev.content # Empty
    /\ FixedContent(ev.content) = ev.content
    /\ lastClipboardContent = ev.content
    /\ ~ev.own

\* The invocations whose spawned paste or copy utility has not finished.
Spawned == {t \in InFlight : t.pc \in {"reading", "writing"}}

\* C16: when a termination signal has made the process exit, the timer is
\* cancelled and no paste or copy utility spawned by an unfinished tick is
\* still running.
C16_NoOrphanAtExit ==
    ev.type = "signalExit" =>
       /\ phase = "exited"
       /\ ~intervalId
       /\ Spawned = {}

\* The texts of the user on which some rule matches.
LinkTexts == {c \in UserTexts : FixedContent(Trim(c)) # Trim(c)}

\* detectAndFixLinks on the texts of the user as they are on the clipboard.
Applied == [c \in UserTexts |-> detectAndFixLinks(c)]

\* The loop runs on a platform with a clipboard utility and the clipboard
\* holds the text c.
Holds(c) ==
    /\ phase = "monitoring"
    /\ platform # "other"
    /\ clipboard = c

Lands(t) ==
    /\ t.pc = "writing"
    /\ ticks' = (ticks (-) SetToBag({t}))
                   (+) SetToBag({[t EXCEPT !.pc = "written", !.landed = TRUE]})
    /\ clipboard' = t.buf
    /\ clipOwn'

\* C18: when the write of a tick lands, the content it replaces on the
\* clipboard is the content that tick read.
C18_WriteReplacesContentRead ==
    [][ \A t \in InFlight : Lands(t) => Trim(clipboard) = t.content ]_vars

\* C19: writeClipboard is not called while isMonitoringEnabled is false.
C19_NoWriteWhileDisabled ==
    ev.type \in WriteCalls => isMonitoringEnabled

\* C20: after a copy by the user at most one write-back lands on the
\* clipboard: no write lands on a clipboard that already holds a write-back.
C20_OneWritePerChange ==
    [][ \A t \in InFlight : Lands(t) => ~clipOwn ]_vars

====
